---- MODULE Spec2Model ----
(***************************************************************************)
(* The cluster action engine of senlin (engine/actions/cluster_action.py): *)
(* execute() and _execute(), the coordinator _wait_for_dependents(), the   *)
(* node fan-out helpers and the operation handlers, run by parallel        *)
(* workers against one cluster record, its node records, the cluster lock  *)
(* and the DERIVED sub-actions.                                            *)
(***************************************************************************)
EXTENDS Integers, Sequences, FiniteSets, TLC

\* ---------------------------------------------------------------- bounds
NumActions == 3      \* cluster actions submitted concurrently (SpecPreempt)
MaxNodes == 3        \* node records the store can hold
MaxSize == 2         \* largest capacity value drawn for min/max/desired
MaxCount == 2        \* largest count drawn for inputs.count and policy counts
NumPolicies == 3     \* policy records; policies 2k-1 and 2k share a type

\* ------------------------------------------------------------- constants
None == -9           \* Python's None where the other values are integers
Unbounded == -1      \* max_size < 0: no upper bound

ClusterId == "c1"
NoCluster == "null"
OtherCluster == "c2"

AllActs == 1..NumActions
Acts == {1}          \* Spec: one cluster action, run on its own
NodeIds == 1..MaxNodes
PolicyIds == 1..NumPolicies
ProfileIds == {"p1", "p2"}
NoOwner == 0

CLUSTER_CREATE == "CLUSTER_CREATE"
CLUSTER_DELETE == "CLUSTER_DELETE"
CLUSTER_UPDATE == "CLUSTER_UPDATE"
CLUSTER_ADD_NODES == "CLUSTER_ADD_NODES"
CLUSTER_DEL_NODES == "CLUSTER_DEL_NODES"
CLUSTER_RESIZE == "CLUSTER_RESIZE"
CLUSTER_SCALE_OUT == "CLUSTER_SCALE_OUT"
CLUSTER_SCALE_IN == "CLUSTER_SCALE_IN"
CLUSTER_ATTACH_POLICY == "CLUSTER_ATTACH_POLICY"
CLUSTER_DETACH_POLICY == "CLUSTER_DETACH_POLICY"

RES_OK == "OK"
RES_ERROR == "ERROR"
RES_CANCEL == "CANCEL"
RES_TIMEOUT == "TIMEOUT"
RES_FAILED == "FAILED"

EXACT_CAPACITY == "EXACT_CAPACITY"
CHANGE_IN_CAPACITY == "CHANGE_IN_CAPACITY"
RAISED == "RAISED"   \* execute() left by an exception instead of a return

CHECK_OK == "CHECK_OK"
CHECK_ERROR == "CHECK_ERROR"

VARIABLES
  cluster,    \* the persisted cluster record
  nodes,      \* the persisted node records, by node id
  lock,       \* owner of the (cluster, CLUSTER_SCOPE) lock slot, or NoOwner
  bindings,   \* the policy ids bound to the cluster
  subs,       \* the DERIVED sub-actions, in creation order
  action,     \* per cluster action: its action name
  inputs,     \* per cluster action: its inputs
  status,     \* per cluster action: its persisted status
  data,       \* per cluster action: its scratch data
  cancelled,  \* per cluster action: the cancel flag
  timedout,   \* per cluster action: the deadline has elapsed
  pc,         \* per cluster action: position in execute()
  frame,      \* per cluster action: local variables of execute() and below
  result,     \* per cluster action: what execute() returned
  preempted   \* history: the actions whose lock a forced CLUSTER_DELETE took

vars == <<cluster, nodes, lock, bindings, subs, action, inputs, status, data,
          cancelled, timedout, pc, frame, result, preempted>>

\* ---------------------------------------------------------------- helpers
\* The sequences of k pairwise distinct elements of S.
Arrangements(S, k) ==
  {s \in [1..k -> S] : \A i, j \in 1..k : i /= j => s[i] /= s[j]}

RECURSIVE SortedSeq(_)
SortedSeq(S) ==
  IF S = {} THEN <<>>
  ELSE LET m == CHOOSE x \in S : \A y \in S : x <= y
       IN <<m>> \o SortedSeq(S \ {m})

\* ------------------------------------------------------------ the records
NoNode == [state |-> "none", cluster_id |-> NoCluster, index |-> 0,
           status |-> "INIT"]

\* db_api.node_get_all_by_cluster / cluster.get_nodes(): the stored nodes
\* whose cluster_id is the cluster.
ClusterNodes ==
  {n \in NodeIds : nodes[n].state = "stored" /\ nodes[n].cluster_id = ClusterId}

FreeNodeIds == {n \in NodeIds : nodes[n].state = "none"}

NoDeletion == [present |-> FALSE, count |-> 0, candidates |-> <<>>,
               destroy_after_delete |-> TRUE]
NoCreation == [present |-> FALSE, count |-> 0]

\* An action's scratch data before any policy check or handler wrote to it.
EmptyData == [status |-> "", reason |-> "", deletion |-> NoDeletion,
              creation |-> NoCreation, candidates |-> <<>>, nodes |-> <<>>]

NoInputs == [count |-> None, adj_type |-> "", number |-> None,
             min_size |-> None, max_size |-> None, strict |-> FALSE,
             policy_id |-> None, nodes |-> <<>>, new_profile_id |-> ""]

EmptyFrame == [mem |-> [min_size |-> 0, max_size |-> 0, desired_capacity |-> 0],
               count |-> 0, pend |-> <<>>, lst |-> <<>>, index |-> 0,
               node |-> 0, rt |-> {}, hook |-> FALSE, wres |-> "", res |-> "",
               reason |-> ""]

NoResult == [res |-> "", reason |-> ""]

\* The capacity triples that satisfy the cluster's invariant.
SizeTriples ==
  {t \in [min_size : 0..MaxSize, max_size : {Unbounded} \cup 0..MaxSize,
          desired_capacity : 0..MaxSize] :
     /\ t.min_size <= t.desired_capacity
     /\ (t.max_size < 0 \/ t.desired_capacity <= t.max_size)}

\* A cluster right after its record was written (INIT, no nodes) or ACTIVE
\* with desired_capacity nodes, indexed 1..desired_capacity.
InitCluster(t, st) ==
  [exists |-> TRUE, status |-> st, min_size |-> t.min_size,
   max_size |-> t.max_size, desired_capacity |-> t.desired_capacity,
   profile_id |-> "p1",
   next_index |-> IF st = "INIT" THEN 1 ELSE t.desired_capacity + 1]

InitNodes(t, st) ==
  [n \in NodeIds |->
     IF st = "ACTIVE" /\ n <= t.desired_capacity
       THEN [state |-> "stored", cluster_id |-> ClusterId, index |-> n,
             status |-> "ACTIVE"]
       ELSE NoNode]

\* No action has been submitted, the lock is free.
InitRest(bound) ==
  /\ lock = NoOwner
  /\ bindings \in bound
  /\ subs = <<>>
  /\ action = [a \in AllActs |-> ""]
  /\ inputs = [a \in AllActs |-> NoInputs]
  /\ status = [a \in AllActs |-> "INIT"]
  /\ data = [a \in AllActs |-> EmptyData]
  /\ cancelled = [a \in AllActs |-> FALSE]
  /\ timedout = [a \in AllActs |-> FALSE]
  /\ pc = [a \in AllActs |-> "init"]
  /\ frame = [a \in AllActs |-> EmptyFrame]
  /\ result = [a \in AllActs |-> NoResult]
  /\ preempted = {}

InitWith(triples, stats, bound) ==
  /\ \E t \in triples, st \in stats :
       /\ cluster = InitCluster(t, st)
       /\ nodes = InitNodes(t, st)
  /\ InitRest(bound)

Init == InitWith(SizeTriples, {"INIT", "ACTIVE"}, {{}, {1}})

\* ------------------------------------------------- collaborators of the core
\* senlin_lock.cluster_lock_acquire(cluster_id, action_id, scope, forced):
\* the slot is taken when it is free, already the caller's, or forced.
cluster_lock_acquire(owner, a, forced) ==
  IF owner = NoOwner \/ owner = a \/ forced
    THEN [ok |-> TRUE, owner |-> a]
    ELSE [ok |-> FALSE, owner |-> owner]

\* senlin_lock.cluster_lock_release(cluster_id, action_id, scope): releases
\* only when the current owner matches.
cluster_lock_release(owner, a) == IF owner = a THEN NoOwner ELSE owner

\* db_api.action_add_dependency(depended, dependent): the dependent (the
\* cluster action) is marked WAITING.
action_add_dependency(st) == "WAITING"

\* The dependent's status once one of its dependencies ended: FAILED when
\* that one failed, READY when all of them have succeeded.
dependent_status(st, ok, all_succeeded) ==
  IF ~ok THEN "FAILED" ELSE IF all_succeeded THEN "READY" ELSE st

\* cluster.set_status(context, status, reason)
set_status(c, st) == [c EXCEPT !.status = st]

\* cluster.store(context): the in-memory capacity fields are persisted.
cluster_store(c, mem) ==
  [c EXCEPT !.min_size = mem.min_size, !.max_size = mem.max_size,
            !.desired_capacity = mem.desired_capacity]

\* The reason _execute() returns for a failed BEFORE check.
PolicyFailure(reason) == "Policy failure: " \o reason

\* ------------------------------------------------------ execute(), the head
\* The value execute() computes for `forced`.
Forced_always(a) == TRUE
Forced_never(a) == FALSE
Forced(a) == action[a] = CLUSTER_DELETE

\* The end of _execute(): what it returns, or the exception it is left by.
\* A result of OK goes through the AFTER check first.
Return(a, res, reason) ==
  /\ frame' = [frame EXCEPT ![a].res = res, ![a].reason = reason]
  /\ pc' = [pc EXCEPT ![a] = IF res = RES_OK THEN "after" ELSE "release"]

\* As Return, on top of other changes to the frame.
ReturnWith(a, f, res, reason) ==
  /\ frame' = [frame EXCEPT ![a] = [f EXCEPT !.res = res, !.reason = reason]]
  /\ pc' = [pc EXCEPT ![a] = IF res = RES_OK THEN "after" ELSE "release"]

\* The action record arrives with its name and inputs, and execute() loads
\* the cluster: its fields, and the list of its nodes that get_nodes() serves
\* from then on.
execute_load(a, kind, inp) ==
  /\ pc[a] = "init"
  /\ IF a = 1 THEN TRUE ELSE pc[a - 1] /= "init"
  /\ action' = [action EXCEPT ![a] = kind]
  /\ inputs' = [inputs EXCEPT ![a] = inp]
  /\ status' = [status EXCEPT ![a] = IF cluster.exists THEN "RUNNING" ELSE "ENDED"]
  /\ IF cluster.exists
       THEN /\ pc' = [pc EXCEPT ![a] = "lock"]
            /\ frame' = [frame EXCEPT ![a].mem =
                 [min_size |-> cluster.min_size, max_size |-> cluster.max_size,
                  desired_capacity |-> cluster.desired_capacity],
                 ![a].rt = ClusterNodes]
            /\ result' = result
       ELSE /\ pc' = [pc EXCEPT ![a] = "done"]
            /\ frame' = frame
            /\ result' = [result EXCEPT ![a] =
                 [res |-> RES_ERROR, reason |-> "Cluster not found"]]
  /\ UNCHANGED <<cluster, nodes, lock, bindings, subs, data, cancelled,
                 timedout, preempted>>

\* execute(): the lock step.
execute_lock(a) ==
  /\ pc[a] = "lock"
  /\ LET r == cluster_lock_acquire(lock, a, Forced(a))
     IN /\ lock' = r.owner
        /\ preempted' = IF r.ok /\ lock \notin {NoOwner, a}
                           /\ action[a] = CLUSTER_DELETE
                          THEN preempted \cup {lock} ELSE preempted
        /\ IF r.ok
             THEN /\ pc' = [pc EXCEPT ![a] = "before"]
                  /\ result' = result
                  /\ status' = status
             ELSE /\ pc' = [pc EXCEPT ![a] = "done"]
                  /\ result' = [result EXCEPT ![a] =
                       [res |-> RES_ERROR, reason |-> "Failed in locking cluster."]]
                  /\ status' = [status EXCEPT ![a] = "ENDED"]
  /\ UNCHANGED <<cluster, nodes, bindings, subs, action, inputs, data,
                 cancelled, timedout, frame>>

NoHints == [deletion |-> NoDeletion, creation |-> NoCreation]

\* What the BEFORE policies may leave in the scratch data of an action.
PolicyHints(a) ==
  CASE action[a] = CLUSTER_SCALE_OUT ->
         {NoHints} \cup
         {[deletion |-> NoDeletion, creation |-> [present |-> TRUE, count |-> c]] :
            c \in 0..MaxCount}
    [] action[a] \in {CLUSTER_SCALE_IN, CLUSTER_RESIZE} ->
         {NoHints} \cup
         {[deletion |-> [present |-> TRUE, count |-> Len(s), candidates |-> s,
                         destroy_after_delete |-> d],
           creation |-> NoCreation] :
            s \in {SortedSeq(S) : S \in SUBSET ClusterNodes}, d \in BOOLEAN}
    [] OTHER -> {NoHints}

\* _execute(): whether the handler is run after a BEFORE check that ended
\* with status st.
BeforeAllows_any(st) == TRUE
BeforeAllows(st) == st = CHECK_OK

\* _execute(): the BEFORE policy check, and the early return when it fails.
execute_before(a, hints) ==
  /\ pc[a] = "before"
  /\ \E st \in {CHECK_OK, CHECK_ERROR} :
       /\ \E h \in IF st = CHECK_OK THEN hints ELSE {NoHints} :
            data' = [data EXCEPT ![a].status = st,
                       ![a].reason = IF st = CHECK_OK THEN "" ELSE "denied",
                       ![a].deletion = h.deletion, ![a].creation = h.creation]
       /\ IF BeforeAllows(st)
            THEN /\ pc' = [pc EXCEPT ![a] = "handler"]
                 /\ frame' = frame
            ELSE Return(a, RES_ERROR, PolicyFailure("denied"))
  /\ UNCHANGED <<cluster, nodes, lock, bindings, subs, action, inputs, status,
                 cancelled, timedout, result, preempted>>

\* _execute(): the AFTER policy check, made when the handler returned OK.
execute_after(a) ==
  /\ pc[a] = "after"
  /\ \E st \in {CHECK_OK, CHECK_ERROR} :
       /\ data' = [data EXCEPT ![a].status = st,
                     ![a].reason = IF st = CHECK_OK THEN "" ELSE "vetoed"]
       /\ frame' = IF st = CHECK_OK THEN frame
                   ELSE [frame EXCEPT ![a].res = RES_ERROR, ![a].reason = "vetoed"]
  /\ pc' = [pc EXCEPT ![a] = "release"]
  /\ UNCHANGED <<cluster, nodes, lock, bindings, subs, action, inputs, status,
                 cancelled, timedout, result, preempted>>

\* execute(): whether the lock release is reached when _execute() ended
\* with res: it sits in a finally clause.
ReleaseReached_on_return(res) == res /= RAISED
ReleaseReached(res) == TRUE

\* execute(): the finally clause, and the return (or the exception going on
\* to the caller).
execute_release(a) ==
  /\ pc[a] = "release"
  /\ lock' = IF ReleaseReached(frame[a].res)
              THEN cluster_lock_release(lock, a) ELSE lock
  /\ result' = [result EXCEPT ![a] =
       [res |-> frame[a].res, reason |-> frame[a].reason]]
  /\ pc' = [pc EXCEPT ![a] = "done"]
  /\ frame' = [frame EXCEPT ![a] = EmptyFrame]
  /\ status' = [status EXCEPT ![a] = "ENDED"]
  /\ UNCHANGED <<cluster, nodes, bindings, subs, action, inputs, data,
                 cancelled, timedout, preempted>>

\* ---------------------------------------------------------- the environment
\* The cancel flag and the deadline are read by the coordinator only, so the
\* signals are taken while the action is in _wait_for_dependents().
Running(a) == pc[a] = "wait"

\* An external cancel signal sets the action's cancel flag.
Cancel(a) ==
  /\ Running(a)
  /\ ~cancelled[a]
  /\ cancelled' = [cancelled EXCEPT ![a] = TRUE]
  /\ UNCHANGED <<cluster, nodes, lock, bindings, subs, action, inputs, status,
                 data, timedout, pc, frame, result, preempted>>

\* The action's deadline elapses.
Timeout(a) ==
  /\ Running(a)
  /\ ~timedout[a]
  /\ timedout' = [timedout EXCEPT ![a] = TRUE]
  /\ UNCHANGED <<cluster, nodes, lock, bindings, subs, action, inputs, status,
                 data, cancelled, pc, frame, result, preempted>>

\* What a node executor leaves of its target node.
NodeAfter(n, name, ok) ==
  IF n.state /= "stored" THEN n
  ELSE IF ~ok THEN [n EXCEPT !.status = "ERROR"]
  ELSE CASE name = "NODE_CREATE" -> [n EXCEPT !.status = "ACTIVE"]
         [] name = "NODE_DELETE" -> [n EXCEPT !.state = "deleted"]
         [] name = "NODE_LEAVE" -> [n EXCEPT !.cluster_id = NoCluster, !.index = -1]
         [] name = "NODE_JOIN" -> [n EXCEPT !.cluster_id = ClusterId]
         [] OTHER -> n

\* A worker runs the dispatched sub-action i to its terminal status, and
\* the dependency protocol updates the status of the cluster action (which
\* is followed until execute() has returned).
SubActionEnds(i, ok) ==
  /\ subs[i].status = "READY"
  /\ subs' = [subs EXCEPT ![i].status = IF ok THEN "SUCCEEDED" ELSE "FAILED"]
  /\ nodes' = [nodes EXCEPT ![subs[i].target] = NodeAfter(@, subs[i].action, ok)]
  /\ LET p == subs[i].parent
     IN status' = IF pc[p] = "done" THEN status
                  ELSE [status EXCEPT ![p] = dependent_status(@, ok,
                         \A j \in 1..Len(subs) :
                           subs[j].parent = p => subs'[j].status = "SUCCEEDED")]
  /\ UNCHANGED <<cluster, lock, bindings, action, inputs, data, cancelled,
                 timedout, pc, frame, result, preempted>>

\* ------------------------------------------------------------ the coordinator
\* What _wait_for_dependents() returns at a poll: "" when it goes on waiting.
WaitOutcome_no_deadline(st, cancel, timeout) ==
  IF st = "READY" THEN RES_OK
  ELSE IF st = "FAILED" THEN RES_ERROR
  ELSE IF cancel THEN RES_CANCEL
  ELSE ""
WaitOutcome(st, cancel, timeout) ==
  IF st = "READY" THEN RES_OK
  ELSE IF st = "FAILED" THEN RES_ERROR
  ELSE IF cancel THEN RES_CANCEL
  ELSE IF timeout THEN RES_TIMEOUT
  ELSE ""

\* The reason that comes with it.
WaitReason(res) ==
  CASE res = RES_OK -> "All dependents ended with success"
    [] res = RES_ERROR -> "failed due to dependent action failure"
    [] res = RES_CANCEL -> "cancelled"
    [] OTHER -> ""

\* _wait_for_dependents() returns a (result, reason) pair, except for
\* TIMEOUT, where it returns the bare result.
WaitReturnsPair(res) == res /= RES_TIMEOUT

\* A poll of the coordinator that ends the wait. The caller unpacks a pair:
\* a bare result raises there, and the exception leaves _execute().
wait_for_dependents(a) ==
  /\ pc[a] = "wait"
  /\ LET res == WaitOutcome(status[a], cancelled[a], timedout[a])
     IN /\ res /= ""
        /\ IF WaitReturnsPair(res)
             THEN /\ frame' = [frame EXCEPT ![a].wres = res,
                                            ![a].reason = WaitReason(res)]
                  /\ pc' = [pc EXCEPT ![a] = "finish"]
             ELSE /\ frame' = [frame EXCEPT ![a].wres = res, ![a].res = RAISED,
                                            ![a].reason = "ValueError"]
                  /\ pc' = [pc EXCEPT ![a] = "release"]
  /\ UNCHANGED <<cluster, nodes, lock, bindings, subs, action, inputs, status,
                 data, cancelled, timedout, result, preempted>>

\* ------------------------------------------------------------ node fan-out
\* _create_nodes(cluster, count), its entry: the frame and where it goes.
create_nodes_frame(f, count) == [f EXCEPT !.count = count, !.lst = <<>>,
                                   !.wres = IF count > 0 THEN "" ELSE RES_OK,
                                   !.reason = ""]
create_nodes_pc(count) == IF count > 0 THEN "create_read" ELSE "finish"

\* _create_nodes(): db_api.cluster_get and the read of next_index.
create_nodes_read(a) ==
  /\ pc[a] = "create_read"
  /\ IF cluster.exists
       THEN /\ frame' = [frame EXCEPT ![a].index = cluster.next_index]
            /\ pc' = [pc EXCEPT ![a] = "create_store"]
       ELSE /\ frame' = [frame EXCEPT ![a].res = RAISED,
                                      ![a].reason = "AttributeError"]
            /\ pc' = [pc EXCEPT ![a] = "release"]
  /\ UNCHANGED <<cluster, nodes, lock, bindings, subs, action, inputs, status,
                 data, cancelled, timedout, result, preempted>>

\* _create_nodes(): node.store (which takes the next index of the cluster),
\* then the NODE_CREATE action, its dependency edge and its dispatch.
create_nodes_store(a) ==
  /\ pc[a] = "create_store"
  /\ FreeNodeIds /= {}
  /\ LET n == CHOOSE x \in FreeNodeIds : \A y \in FreeNodeIds : x <= y
     IN /\ nodes' = [nodes EXCEPT ![n] =
              [state |-> "stored", cluster_id |-> ClusterId,
               index |-> frame[a].index, status |-> "INIT"]]
        /\ subs' = Append(subs, [parent |-> a, action |-> "NODE_CREATE",
                                 target |-> n, status |-> "READY"])
        /\ frame' = [frame EXCEPT ![a].count = @ - 1, ![a].lst = Append(@, n)]
  /\ cluster' = [cluster EXCEPT !.next_index = @ + 1]
  /\ status' = [status EXCEPT ![a] = action_add_dependency(@)]
  /\ pc' = [pc EXCEPT ![a] = IF frame[a].count > 1 THEN "create_read" ELSE "wait"]
  /\ UNCHANGED <<lock, bindings, action, inputs, data, cancelled, timedout,
                 result, preempted>>

\* _delete_nodes(): the action name the removal sub-actions get.
DeleteActionName(d) ==
  IF d.deletion.present /\ ~d.deletion.destroy_after_delete
    THEN "NODE_LEAVE" ELSE "NODE_DELETE"

\* _delete_nodes(cluster, nodes), its entry.
delete_nodes_frame(f, lst) == [f EXCEPT !.pend = lst, !.lst = lst,
                                 !.wres = IF Len(lst) > 0 THEN "" ELSE RES_OK,
                                 !.reason = ""]
delete_nodes_pc(lst) == IF Len(lst) > 0 THEN "delete_spawn" ELSE "finish"

\* _delete_nodes(): one round of the loop: the removal action for the next
\* node, its dependency edge and its dispatch.
delete_nodes_spawn(a) ==
  /\ pc[a] = "delete_spawn"
  /\ subs' = Append(subs, [parent |-> a, action |-> DeleteActionName(data[a]),
                           target |-> Head(frame[a].pend), status |-> "READY"])
  /\ frame' = [frame EXCEPT ![a].pend = Tail(@)]
  /\ status' = [status EXCEPT ![a] = action_add_dependency(@)]
  /\ pc' = [pc EXCEPT ![a] = IF Len(frame[a].pend) > 1 THEN "delete_spawn" ELSE "wait"]
  /\ UNCHANGED <<cluster, nodes, lock, bindings, action, inputs, data,
                 cancelled, timedout, result, preempted>>

\* _create_nodes() and _delete_nodes() record the node ids on OK.
NodesOnOk(d, f) == IF f.wres = RES_OK /\ Len(f.lst) > 0
                     THEN [d EXCEPT !.nodes = f.lst] ELSE d

\* --------------------------------------------------------------- handlers
\* _update_cluster_properties(): the in-memory cluster after the three
\* assignments; need_store is whether any of them changed something.
update_cluster_properties(mem, desired, min_size, max_size) ==
  [min_size |-> IF min_size /= None /\ min_size /= mem.min_size
                  THEN min_size ELSE mem.min_size,
   max_size |-> IF max_size /= None /\ max_size /= mem.max_size
                  THEN max_size ELSE mem.max_size,
   desired_capacity |-> IF desired /= None /\ desired /= mem.desired_capacity
                          THEN desired ELSE mem.desired_capacity]

\* do_scale_out(): the count, from the policy output or the inputs.
ScaleOutCount(d, inp) ==
  IF d.creation.present THEN d.creation.count
  ELSE IF inp.count = None THEN 1 ELSE inp.count

\* do_scale_in(): the count, from the policy output or the inputs.
ScaleInCount(d, inp) ==
  IF d.deletion.present THEN d.deletion.count
  ELSE IF inp.count = None THEN 1 ELSE inp.count

\* do_scale_in(): the candidates it starts from: the 'candidates' key of the
\* scratch data when the policy left a 'deletion' entry, else none.
ScaleInCandidates(d) == IF d.deletion.present THEN d.candidates ELSE <<>>

\* do_scale_out() up to the fan-out.
do_scale_out(a) ==
  /\ pc[a] = "handler"
  /\ action[a] = CLUSTER_SCALE_OUT
  /\ LET count == ScaleOutCount(data[a], inputs[a])
         desired_capacity == Cardinality(ClusterNodes) + count
         mem == update_cluster_properties(frame[a].mem, desired_capacity, None, None)
     IN IF count = 0
          THEN /\ Return(a, RES_OK, "No scaling needed based on policy checking")
               /\ cluster' = cluster
          ELSE IF mem = frame[a].mem
            THEN /\ frame' = [frame EXCEPT ![a] = create_nodes_frame(@, count)]
                 /\ pc' = [pc EXCEPT ![a] = create_nodes_pc(count)]
                 /\ cluster' = cluster
            ELSE \E stored \in BOOLEAN :
                   IF stored
                     THEN /\ cluster' = cluster_store(cluster, mem)
                          /\ frame' = [frame EXCEPT ![a] =
                               create_nodes_frame([@ EXCEPT !.mem = mem], count)]
                          /\ pc' = [pc EXCEPT ![a] = create_nodes_pc(count)]
                     ELSE /\ cluster' = set_status(cluster, "ACTIVE")
                          /\ ReturnWith(a, [frame[a] EXCEPT !.mem = mem], RES_ERROR,
                                        "Cluster object cannot be updated.")
  /\ UNCHANGED <<nodes, lock, bindings, subs, action, inputs, status, data,
                 cancelled, timedout, result, preempted>>

\* do_scale_out() and do_scale_in() after the fan-out helper returned.
\* do_scale_in() keeps the helper's reason apart (new_reason) and returns
\* the reason of _update_cluster_properties(), which is empty.
finish_scale(a) ==
  /\ pc[a] = "finish"
  /\ action[a] \in {CLUSTER_SCALE_OUT, CLUSTER_SCALE_IN}
  /\ data' = [data EXCEPT ![a] = NodesOnOk(@, frame[a])]
  /\ LET res == frame[a].wres
     IN /\ cluster' = IF res = RES_OK THEN set_status(cluster, "ACTIVE")
                      ELSE IF res \in {RES_CANCEL, RES_TIMEOUT, RES_FAILED}
                        THEN set_status(cluster, "ERROR")
                      ELSE cluster
        /\ Return(a, res, IF res = RES_OK THEN "Cluster scaling succeeded"
                          ELSE IF action[a] = CLUSTER_SCALE_IN THEN ""
                          ELSE frame[a].reason)
  /\ UNCHANGED <<nodes, lock, bindings, subs, action, inputs, status,
                 cancelled, timedout, result, preempted>>

\* do_scale_in() up to the fan-out: the count, the new desired_capacity,
\* the victims (random.randrange raises on an empty list).
do_scale_in(a) ==
  /\ pc[a] = "handler"
  /\ action[a] = CLUSTER_SCALE_IN
  /\ LET count == ScaleInCount(data[a], inputs[a])
         candidates == ScaleInCandidates(data[a])
         desired_capacity == Cardinality(ClusterNodes) - count
         mem == update_cluster_properties(frame[a].mem, desired_capacity, None, None)
         Victims(f) ==
           IF Len(candidates) > 0
             THEN /\ frame' = [frame EXCEPT ![a] = delete_nodes_frame(f, candidates)]
                  /\ pc' = [pc EXCEPT ![a] = delete_nodes_pc(candidates)]
           ELSE IF count > Cardinality(ClusterNodes)
             THEN ReturnWith(a, f, RAISED, "ValueError")
           ELSE \E s \in Arrangements(ClusterNodes, count) :
                  /\ frame' = [frame EXCEPT ![a] = delete_nodes_frame(f, s)]
                  /\ pc' = [pc EXCEPT ![a] = delete_nodes_pc(s)]
     IN IF count = 0
          THEN /\ Return(a, RES_OK, "No scaling needed based on policy checking")
               /\ cluster' = cluster
          ELSE IF mem = frame[a].mem
            THEN /\ Victims(frame[a])
                 /\ cluster' = cluster
            ELSE \E stored \in BOOLEAN :
                   IF stored
                     THEN /\ cluster' = cluster_store(cluster, mem)
                          /\ Victims([frame[a] EXCEPT !.mem = mem])
                     ELSE /\ cluster' = set_status(cluster, "ACTIVE")
                          /\ ReturnWith(a, [frame[a] EXCEPT !.mem = mem], RES_ERROR,
                                        "Cluster object cannot be updated.")
  /\ UNCHANGED <<nodes, lock, bindings, subs, action, inputs, status, data,
                 cancelled, timedout, result, preempted>>

\* do_create() up to the fan-out: the resource-level creation of the cluster.
do_create(a) ==
  /\ pc[a] = "handler"
  /\ action[a] = CLUSTER_CREATE
  /\ \E created \in BOOLEAN :
       IF created
         THEN /\ cluster' = set_status(cluster, "CREATING")
              /\ frame' = [frame EXCEPT ![a] =
                   create_nodes_frame(@, frame[a].mem.desired_capacity)]
              /\ pc' = [pc EXCEPT ![a] =
                   create_nodes_pc(frame[a].mem.desired_capacity)]
         ELSE /\ cluster' = set_status(cluster, "ERROR")
              /\ Return(a, RES_ERROR, "Cluster creation failed.")
  /\ UNCHANGED <<nodes, lock, bindings, subs, action, inputs, status, data,
                 cancelled, timedout, result, preempted>>

\* do_create() after _create_nodes() returned.
finish_create(a) ==
  /\ pc[a] = "finish"
  /\ action[a] = CLUSTER_CREATE
  /\ data' = [data EXCEPT ![a] = NodesOnOk(@, frame[a])]
  /\ LET res == frame[a].wres
     IN /\ cluster' = IF res = RES_OK THEN set_status(cluster, "ACTIVE")
                      ELSE IF res \in {RES_CANCEL, RES_TIMEOUT, RES_ERROR}
                        THEN set_status(cluster, "ERROR")
                      ELSE cluster
        /\ Return(a, res, IF res = RES_OK THEN "Cluster creation succeeded"
                          ELSE frame[a].reason)
  /\ UNCHANGED <<nodes, lock, bindings, subs, action, inputs, status,
                 cancelled, timedout, result, preempted>>

\* do_delete() up to the fan-out.
do_delete(a) ==
  /\ pc[a] = "handler"
  /\ action[a] = CLUSTER_DELETE
  /\ cluster' = set_status(cluster, "DELETING")
  /\ data' = [data EXCEPT ![a].deletion =
       [present |-> TRUE, count |-> 0, candidates |-> <<>>,
        destroy_after_delete |-> TRUE]]
  /\ LET lst == SortedSeq(frame[a].rt)
     IN /\ frame' = [frame EXCEPT ![a] = delete_nodes_frame(@, lst)]
        /\ pc' = [pc EXCEPT ![a] = delete_nodes_pc(lst)]
  /\ UNCHANGED <<nodes, lock, bindings, subs, action, inputs, status,
                 cancelled, timedout, result, preempted>>

\* do_delete(): the cluster status after _delete_nodes() returned a result
\* other than OK.
delete_status_warning(c, res) ==
  IF res \in {RES_CANCEL, RES_TIMEOUT, RES_ERROR}
    THEN set_status(c, "WARNING") ELSE c
delete_status(c, res) ==
  IF res = RES_CANCEL THEN set_status(c, "ACTIVE")
  ELSE IF res \in {RES_TIMEOUT, RES_ERROR} THEN set_status(c, "WARNING")
  ELSE c

\* do_delete() after _delete_nodes() returned.
finish_delete(a) ==
  /\ pc[a] = "finish"
  /\ action[a] = CLUSTER_DELETE
  /\ data' = [data EXCEPT ![a] = NodesOnOk(@, frame[a])]
  /\ LET res == frame[a].wres
     IN IF res = RES_OK
          THEN \E deleted \in BOOLEAN :
                 IF deleted
                   THEN /\ cluster' = [cluster EXCEPT !.exists = FALSE]
                        /\ Return(a, res, frame[a].reason)
                   ELSE /\ cluster' = cluster
                        /\ Return(a, RES_ERROR, "Cannot delete cluster object.")
          ELSE /\ cluster' = delete_status(cluster, res)
               /\ Return(a, res, frame[a].reason)
  /\ UNCHANGED <<nodes, lock, bindings, subs, action, inputs, status,
                 cancelled, timedout, result, preempted>>

\* do_update(): whether the handler goes on to write the profile after
\* _wait_for_dependents() returned res ('if result != self.RES_OK: return').
UpdateWrites_always(res) == TRUE
UpdateWrites(res) == res = RES_OK

\* do_update(): cluster.profile_id = profile_id; cluster.store();
\* cluster.set_status(ACTIVE).
update_profile(c, profile_id) ==
  set_status([c EXCEPT !.profile_id = profile_id], "ACTIVE")

\* do_update() up to the wait: the node list is the one get_nodes() serves;
\* with no node the handler goes straight on to write the profile.
do_update(a) ==
  /\ pc[a] = "handler"
  /\ action[a] = CLUSTER_UPDATE
  /\ LET node_list == SortedSeq(frame[a].rt)
     IN IF Len(node_list) > 0
          THEN /\ frame' = [frame EXCEPT ![a].pend = node_list,
                                         ![a].lst = node_list]
               /\ pc' = [pc EXCEPT ![a] = "update_spawn"]
               /\ cluster' = cluster
          ELSE /\ cluster' = update_profile(cluster, inputs[a].new_profile_id)
               /\ Return(a, RES_OK, "Cluster update succeeded")
  /\ UNCHANGED <<nodes, lock, bindings, subs, action, inputs, status, data,
                 cancelled, timedout, result, preempted>>

\* do_update(): one round of the loop: the NODE_UPDATE action for the next
\* node, its dependency edge and its dispatch.
update_spawn(a) ==
  /\ pc[a] = "update_spawn"
  /\ subs' = Append(subs, [parent |-> a, action |-> "NODE_UPDATE",
                           target |-> Head(frame[a].pend), status |-> "READY"])
  /\ frame' = [frame EXCEPT ![a].pend = Tail(@)]
  /\ status' = [status EXCEPT ![a] = action_add_dependency(@)]
  /\ pc' = [pc EXCEPT ![a] = IF Len(frame[a].pend) > 1 THEN "update_spawn"
                             ELSE "wait"]
  /\ UNCHANGED <<cluster, nodes, lock, bindings, action, inputs, data,
                 cancelled, timedout, result, preempted>>

\* do_update() after _wait_for_dependents() returned.
finish_update(a) ==
  /\ pc[a] = "finish"
  /\ action[a] = CLUSTER_UPDATE
  /\ LET res == frame[a].wres
     IN IF UpdateWrites(res)
          THEN /\ cluster' = update_profile(cluster, inputs[a].new_profile_id)
               /\ Return(a, RES_OK, "Cluster update succeeded")
          ELSE /\ cluster' = cluster
               /\ Return(a, res, frame[a].reason)
  /\ UNCHANGED <<nodes, lock, bindings, subs, action, inputs, status, data,
                 cancelled, timedout, result, preempted>>

\* policy_mod.Policy.load(...).type
PolicyType(p) == (p + 1) \div 2

\* do_attach_policy(): the scan of the existing bindings, in the order the
\* store lists them: the first that decides wins.
AttachScan_no_conflict(existing, policy_id) ==
  IF \E k \in 1..Len(existing) : existing[k] = policy_id
    THEN "attached" ELSE "free"

RECURSIVE AttachScan(_, _)
AttachScan(existing, policy_id) ==
  IF existing = <<>> THEN "free"
  ELSE IF Head(existing) = policy_id THEN "attached"
  ELSE IF PolicyType(Head(existing)) = PolicyType(policy_id) THEN "conflict"
  ELSE AttachScan(Tail(existing), policy_id)

\* do_attach_policy()
do_attach_policy(a) ==
  /\ pc[a] = "handler"
  /\ action[a] = CLUSTER_ATTACH_POLICY
  /\ LET policy_id == inputs[a].policy_id
         scan == AttachScan(SortedSeq(bindings), policy_id)
     IN CASE scan = "attached" ->
               /\ Return(a, RES_OK, "Policy already attached")
               /\ bindings' = bindings
          [] scan = "conflict" ->
               /\ Return(a, RAISED, "PolicyTypeConflict")
               /\ bindings' = bindings
          [] OTHER ->
               \E attached \in BOOLEAN :
                 LET f == [frame[a] EXCEPT !.hook = TRUE]
                 IN IF attached
                      THEN /\ bindings' = bindings \cup {policy_id}
                           /\ ReturnWith(a, f, RES_OK, "Policy attached.")
                      ELSE /\ bindings' = bindings
                           /\ ReturnWith(a, f, RES_ERROR,
                                         "Failed attaching policy.")
  /\ UNCHANGED <<cluster, nodes, lock, subs, action, inputs, status, data,
                 cancelled, timedout, result, preempted>>

\* do_detach_policy()
do_detach_policy(a) ==
  /\ pc[a] = "handler"
  /\ action[a] = CLUSTER_DETACH_POLICY
  /\ LET policy_id == inputs[a].policy_id
     IN IF policy_id = None
          THEN /\ Return(a, RAISED, "PolicyNotSpecified")
               /\ bindings' = bindings
          ELSE \E detached \in BOOLEAN :
                 LET f == [frame[a] EXCEPT !.hook = TRUE]
                 IN IF detached
                      THEN /\ bindings' = bindings \ {policy_id}
                           /\ ReturnWith(a, f, RES_OK, "Policy detached.")
                      ELSE /\ bindings' = bindings
                           /\ ReturnWith(a, f, RES_ERROR,
                                         "Failed detaching policy.")
  /\ UNCHANGED <<cluster, nodes, lock, subs, action, inputs, status, data,
                 cancelled, timedout, result, preempted>>

\* scaleutils.calculate_desired(current, adj_type, number, min_step), for
\* the two adjustment types that take no min_step.
calculate_desired(current, adj_type, number) ==
  IF adj_type = EXACT_CAPACITY THEN number
  ELSE IF adj_type = CHANGE_IN_CAPACITY THEN current + number
  ELSE current

\* scaleutils.truncate_desired(cluster, desired, min_size, max_size): desired
\* clamped to the bounds given, or the cluster's where none is given.
truncate_desired(mem, desired, min_size, max_size) ==
  LET lo == IF min_size /= None THEN min_size ELSE mem.min_size
      hi == IF max_size /= None THEN max_size ELSE mem.max_size
  IN IF desired < lo THEN lo
     ELSE IF hi >= 0 /\ desired > hi THEN hi
     ELSE desired

\* _check_size_params(), the part under 'desired is not None and strict is
\* True': the reason of the ERROR it returns, "" when it goes on.
check_desired_no_cluster_min(mem, desired, min_size, max_size) ==
  IF min_size /= None /\ desired < min_size
    THEN "The target capacity is less than the specified min_size."
  ELSE IF max_size /= None /\ desired > max_size /\ max_size >= 0
    THEN "The target capacity is greater than the specified max_size."
  ELSE IF max_size = None /\ desired > mem.max_size /\ mem.max_size >= 0
    THEN "The target capacity is greater than the cluster's max_size."
  ELSE ""
check_desired(mem, desired, min_size, max_size) ==
  IF min_size /= None /\ desired < min_size
    THEN "The target capacity is less than the specified min_size."
  ELSE IF min_size = None /\ desired < mem.min_size
    THEN "The target capacity is less than the cluster's min_size."
  ELSE IF max_size /= None /\ desired > max_size /\ max_size >= 0
    THEN "The target capacity is greater than the specified max_size."
  ELSE IF max_size = None /\ desired > mem.max_size /\ mem.max_size >= 0
    THEN "The target capacity is greater than the cluster's max_size."
  ELSE ""

\* _check_size_params(), the checks of min_size and max_size that follow.
check_bounds(mem, desired, min_size, max_size) ==
  IF min_size /= None /\ max_size /= None /\ max_size >= 0 /\ min_size > max_size
    THEN "The specified min_size is greater than the specified max_size."
  ELSE IF min_size /= None /\ max_size = None /\ mem.max_size >= 0
          /\ min_size > mem.max_size
    THEN "The specified min_size is greater than the current max_size of the cluster."
  ELSE IF min_size /= None /\ desired = None /\ min_size > mem.desired_capacity
    THEN "The specified min_size is greater than the current desired_capacity of the cluster."
  ELSE IF max_size /= None /\ min_size = None /\ max_size >= 0
          /\ max_size < mem.min_size
    THEN "The specified max_size is less than the current min_size of the cluster."
  ELSE IF max_size /= None /\ desired = None /\ max_size < mem.desired_capacity
    THEN "The specified max_size is less than the current desired_capacity of the cluster."
  ELSE ""

\* _check_size_params(cluster, desired, min_size, max_size, strict): the
\* reason of the ERROR, "" for (RES_OK, '').
check_size_params(mem, desired, min_size, max_size, strict) ==
  LET r == IF desired /= None /\ strict
             THEN check_desired(mem, desired, min_size, max_size) ELSE ""
  IN IF r /= "" THEN r ELSE check_bounds(mem, desired, min_size, max_size)

\* do_resize(): the desired capacity it computes before the checks.
resize_desired(mem, inp) ==
  LET d == IF inp.adj_type /= ""
             THEN calculate_desired(mem.desired_capacity, inp.adj_type, inp.number)
             ELSE mem.desired_capacity
  IN IF inp.strict THEN d
     ELSE truncate_desired(mem, d, inp.min_size, inp.max_size)

\* do_resize(): the victims, 'adjustment' draws of random.randrange over
\* the node list, each drawn node being removed from the list.
resize_victims_with_replacement(node_list, adjustment) ==
  [1..adjustment -> node_list]
resize_victims(node_list, adjustment) == Arrangements(node_list, adjustment)

\* do_resize(): what follows _update_cluster_properties(), with the cluster
\* as it is in memory (f.mem) and the node list get_nodes() serves: nodes
\* are removed when there are more than desired_capacity, created when
\* there are fewer.
resize_fan_out(a, f, node_list) ==
  LET desired == f.mem.desired_capacity
      current_size == Cardinality(node_list)
  IN IF desired < current_size
       THEN /\ data' = IF data[a].deletion.present THEN data
                       ELSE [data EXCEPT ![a].deletion =
                              [present |-> TRUE, count |-> current_size - desired,
                               candidates |-> <<>>, destroy_after_delete |-> TRUE]]
            /\ IF desired < 0
                 THEN ReturnWith(a, f, RAISED, "ValueError")
                 ELSE \E c \in resize_victims(node_list, current_size - desired) :
                        /\ frame' = [frame EXCEPT ![a] = delete_nodes_frame(f, c)]
                        /\ pc' = [pc EXCEPT ![a] = delete_nodes_pc(c)]
     ELSE IF desired > current_size
       THEN /\ data' = IF data[a].creation.present THEN data
                       ELSE [data EXCEPT ![a].creation =
                              [present |-> TRUE, count |-> desired - current_size]]
            /\ frame' = [frame EXCEPT ![a] =
                 create_nodes_frame(f, desired - current_size)]
            /\ pc' = [pc EXCEPT ![a] = create_nodes_pc(desired - current_size)]
     ELSE /\ data' = data
          /\ frame' = [frame EXCEPT ![a] = [f EXCEPT !.wres = RES_OK, !.lst = <<>>,
                                                     !.reason = ""]]
          /\ pc' = [pc EXCEPT ![a] = "finish"]

\* do_resize() up to the fan-out. The node list is the cluster's current
\* one on both paths of _update_cluster_properties(): it reloads the runtime
\* data when nothing is stored, and cluster.store() does when it is.
do_resize(a) ==
  /\ pc[a] = "handler"
  /\ action[a] = CLUSTER_RESIZE
  /\ LET inp == inputs[a]
         desired == resize_desired(frame[a].mem, inp)
         reason == check_size_params(frame[a].mem, desired, inp.min_size,
                                     inp.max_size, inp.strict)
         mem == update_cluster_properties(frame[a].mem, desired, inp.min_size,
                                          inp.max_size)
     IN IF reason /= ""
          THEN /\ Return(a, RES_ERROR, reason)
               /\ cluster' = cluster
               /\ data' = data
          ELSE IF mem = frame[a].mem
            THEN /\ resize_fan_out(a, [frame[a] EXCEPT !.rt = ClusterNodes],
                                   ClusterNodes)
                 /\ cluster' = cluster
            ELSE \E stored \in BOOLEAN :
                   IF stored
                     THEN /\ cluster' = cluster_store(cluster, mem)
                          /\ resize_fan_out(a, [frame[a] EXCEPT !.mem = mem,
                                                   !.rt = ClusterNodes],
                                            ClusterNodes)
                     ELSE /\ cluster' = set_status(cluster, "ACTIVE")
                          /\ data' = data
                          /\ ReturnWith(a, [frame[a] EXCEPT !.mem = mem], RES_ERROR,
                                        "Cluster object cannot be updated.")
  /\ UNCHANGED <<nodes, lock, bindings, subs, action, inputs, status,
                 cancelled, timedout, result, preempted>>

\* do_resize() after the fan-out helper returned, or with nothing to do.
finish_resize(a) ==
  /\ pc[a] = "finish"
  /\ action[a] = CLUSTER_RESIZE
  /\ data' = [data EXCEPT ![a] = NodesOnOk(@, frame[a])]
  /\ LET res == frame[a].wres
     IN /\ cluster' = IF res = RES_OK THEN set_status(cluster, "ACTIVE")
                      ELSE cluster
        /\ Return(a, res, IF res = RES_OK THEN "Cluster resize succeeded"
                          ELSE frame[a].reason)
  /\ UNCHANGED <<nodes, lock, bindings, subs, action, inputs, status,
                 cancelled, timedout, result, preempted>>

\* list.remove(x): the list without the first occurrence of x.
RECURSIVE ListRemove(_, _)
ListRemove(lst, x) ==
  IF lst = <<>> THEN <<>>
  ELSE IF Head(lst) = x THEN Tail(lst)
  ELSE <<Head(lst)>> \o ListRemove(Tail(lst), x)

\* node_mod.Node.load raises NodeNotFound.
NodeNotFound(n) == n.state /= "stored"

\* do_add_nodes(): the first loop, 'for node_id in nodes' over the list it
\* removes from: the iterator is at position i of the list as it is now.
\* node is the last node that was loaded.
RECURSIVE AddScan(_, _, _, _, _)
AddScan(tbl, lst, i, failures, node) ==
  IF i > Len(lst) THEN [nodes |-> lst, failures |-> failures, node |-> node]
  ELSE LET node_id == lst[i]
       IN IF NodeNotFound(tbl[node_id])
            THEN AddScan(tbl, lst, i + 1, failures \cup {node_id}, node)
          ELSE IF tbl[node_id].cluster_id = ClusterId
            THEN AddScan(tbl, ListRemove(lst, node_id), i + 1, failures, node_id)
          ELSE IF tbl[node_id].cluster_id /= NoCluster
            THEN AddScan(tbl, lst, i + 1, failures \cup {node_id}, node_id)
          ELSE IF tbl[node_id].status /= "ACTIVE"
            THEN AddScan(tbl, lst, i + 1, failures \cup {node_id}, node_id)
          ELSE AddScan(tbl, lst, i + 1, failures, node_id)

\* do_add_nodes() up to the second loop.
do_add_nodes(a) ==
  /\ pc[a] = "handler"
  /\ action[a] = CLUSTER_ADD_NODES
  /\ LET r == AddScan(nodes, inputs[a].nodes, 1, {}, 0)
     IN /\ inputs' = [inputs EXCEPT ![a].nodes = r.nodes]
        /\ IF r.failures /= {}
             THEN Return(a, RES_ERROR, "failures")
           ELSE IF Len(r.nodes) = 0
             THEN Return(a, RES_OK, "Completed adding nodes")
           ELSE /\ frame' = [frame EXCEPT ![a].pend = r.nodes, ![a].lst = r.nodes,
                                          ![a].node = r.node]
                /\ pc' = [pc EXCEPT ![a] = "join_spawn"]
  /\ UNCHANGED <<cluster, nodes, lock, bindings, subs, action, status, data,
                 cancelled, timedout, result, preempted>>

\* do_add_nodes(): one round of the second loop: the NODE_JOIN action, whose
\* target is node.id, its dependency edge and its dispatch.
join_spawn(a) ==
  /\ pc[a] = "join_spawn"
  /\ subs' = Append(subs, [parent |-> a, action |-> "NODE_JOIN",
                           target |-> frame[a].node, status |-> "READY"])
  /\ frame' = [frame EXCEPT ![a].pend = Tail(@)]
  /\ status' = [status EXCEPT ![a] = action_add_dependency(@)]
  /\ pc' = [pc EXCEPT ![a] = IF Len(frame[a].pend) > 1 THEN "join_spawn" ELSE "wait"]
  /\ UNCHANGED <<cluster, nodes, lock, bindings, action, inputs, data,
                 cancelled, timedout, result, preempted>>

\* do_add_nodes() after _wait_for_dependents() returned.
finish_add_nodes(a) ==
  /\ pc[a] = "finish"
  /\ action[a] = CLUSTER_ADD_NODES
  /\ LET res == frame[a].wres
     IN /\ data' = IF res = RES_OK THEN [data EXCEPT ![a].nodes = frame[a].lst]
                   ELSE data
        /\ Return(a, res, IF res = RES_OK THEN "Completed adding nodes"
                          ELSE frame[a].reason)
  /\ UNCHANGED <<cluster, nodes, lock, bindings, subs, action, inputs, status,
                 cancelled, timedout, result, preempted>>

\* do_del_nodes(): the first loop, over the list it removes from.
RECURSIVE DelScan(_, _, _, _)
DelScan(tbl, lst, i, failures) ==
  IF i > Len(lst) THEN [nodes |-> lst, failures |-> failures]
  ELSE LET node_id == lst[i]
       IN IF NodeNotFound(tbl[node_id])
            THEN DelScan(tbl, lst, i + 1, failures \cup {node_id})
          ELSE IF tbl[node_id].cluster_id = NoCluster
            THEN DelScan(tbl, ListRemove(lst, node_id), i + 1, failures)
          ELSE DelScan(tbl, lst, i + 1, failures)

\* do_del_nodes() up to the fan-out.
do_del_nodes(a) ==
  /\ pc[a] = "handler"
  /\ action[a] = CLUSTER_DEL_NODES
  /\ LET r == DelScan(nodes, inputs[a].nodes, 1, {})
     IN /\ inputs' = [inputs EXCEPT ![a].nodes = r.nodes]
        /\ IF r.failures /= {}
             THEN /\ Return(a, RES_ERROR, "failures")
                  /\ data' = data
           ELSE IF Len(r.nodes) = 0
             THEN /\ Return(a, RES_OK, "Completed deleting nodes")
                  /\ data' = data
           ELSE /\ data' = [data EXCEPT ![a].deletion =
                     [present |-> TRUE, count |-> 0, candidates |-> <<>>,
                      destroy_after_delete |-> FALSE]]
                /\ frame' = [frame EXCEPT ![a] = delete_nodes_frame(@, r.nodes)]
                /\ pc' = [pc EXCEPT ![a] = delete_nodes_pc(r.nodes)]
  /\ UNCHANGED <<cluster, nodes, lock, bindings, subs, action, status,
                 cancelled, timedout, result, preempted>>

\* do_del_nodes() after _delete_nodes() returned.
finish_del_nodes(a) ==
  /\ pc[a] = "finish"
  /\ action[a] = CLUSTER_DEL_NODES
  /\ data' = [data EXCEPT ![a] = NodesOnOk(@, frame[a])]
  /\ LET res == frame[a].wres
     IN Return(a, res, IF res = RES_OK THEN "Completed deleting nodes"
                       ELSE frame[a].reason)
  /\ UNCHANGED <<cluster, nodes, lock, bindings, subs, action, inputs, status,
                 cancelled, timedout, result, preempted>>

\* ------------------------------------------------------------ specifications
CountInputs == {[NoInputs EXCEPT !.count = c] : c \in {None} \cup 0..MaxCount}

InputsFor(kind) ==
  CASE kind \in {CLUSTER_SCALE_OUT, CLUSTER_SCALE_IN} -> CountInputs
    [] kind = CLUSTER_ATTACH_POLICY ->
         {[NoInputs EXCEPT !.policy_id = p] : p \in PolicyIds}
    [] kind = CLUSTER_DETACH_POLICY ->
         {[NoInputs EXCEPT !.policy_id = p] : p \in PolicyIds \cup {None}}
    [] OTHER -> {NoInputs}

Kinds == {CLUSTER_CREATE, CLUSTER_DELETE, CLUSTER_SCALE_OUT, CLUSTER_SCALE_IN,
          CLUSTER_ATTACH_POLICY, CLUSTER_DETACH_POLICY}

Next ==
  \/ \E a \in Acts, kind \in Kinds : \E inp \in InputsFor(kind) :
       execute_load(a, kind, inp)
  \/ \E a \in Acts : execute_lock(a)
  \/ \E a \in Acts : execute_before(a, PolicyHints(a))
  \/ \E a \in Acts : do_create(a)
  \/ \E a \in Acts : finish_create(a)
  \/ \E a \in Acts : do_delete(a)
  \/ \E a \in Acts : finish_delete(a)
  \/ \E a \in Acts : do_scale_out(a)
  \/ \E a \in Acts : do_scale_in(a)
  \/ \E a \in Acts : finish_scale(a)
  \/ \E a \in Acts : do_attach_policy(a)
  \/ \E a \in Acts : do_detach_policy(a)
  \/ \E a \in Acts : create_nodes_read(a)
  \/ \E a \in Acts : create_nodes_store(a)
  \/ \E a \in Acts : delete_nodes_spawn(a)
  \/ \E a \in Acts : wait_for_dependents(a)
  \/ \E a \in Acts : execute_after(a)
  \/ \E a \in Acts : execute_release(a)
  \/ \E a \in Acts : Cancel(a)
  \/ \E a \in Acts : Timeout(a)
  \/ \E i \in 1..Len(subs), ok \in BOOLEAN : SubActionEnds(i, ok)

Spec == Init /\ [][Next]_vars

\* Several cluster actions on one ACTIVE cluster, empty at first: scale-outs
\* by one node and forced deletes, with no policy output, no cancel signal
\* and no deadline.
PreemptKinds == {CLUSTER_DELETE, CLUSTER_SCALE_OUT}

InitPreempt ==
  InitWith({[min_size |-> 0, max_size |-> Unbounded, desired_capacity |-> 0]},
           {"ACTIVE"}, {{}})

NextPreempt ==
  \/ \E a \in AllActs, kind \in PreemptKinds : execute_load(a, kind, NoInputs)
  \/ \E a \in AllActs : execute_lock(a)
  \/ \E a \in AllActs : execute_before(a, {NoHints})
  \/ \E a \in AllActs : do_delete(a)
  \/ \E a \in AllActs : finish_delete(a)
  \/ \E a \in AllActs : do_scale_out(a)
  \/ \E a \in AllActs : finish_scale(a)
  \/ \E a \in AllActs : create_nodes_read(a)
  \/ \E a \in AllActs : create_nodes_store(a)
  \/ \E a \in AllActs : delete_nodes_spawn(a)
  \/ \E a \in AllActs : wait_for_dependents(a)
  \/ \E a \in AllActs : execute_after(a)
  \/ \E a \in AllActs : execute_release(a)
  \/ \E i \in 1..Len(subs), ok \in BOOLEAN : SubActionEnds(i, ok)

SpecPreempt == InitPreempt /\ [][NextPreempt]_vars

\* One CLUSTER_ADD_NODES or CLUSTER_DEL_NODES on an ACTIVE cluster, the node
\* records being members, orphans (ACTIVE or in ERROR), nodes of another
\* cluster, or missing; the request lists the ids in any order.
MemberKinds == {CLUSTER_ADD_NODES, CLUSTER_DEL_NODES}

NodeStates ==
  {[state |-> "stored", cluster_id |-> ClusterId, index |-> 1, status |-> "ACTIVE"],
   [state |-> "stored", cluster_id |-> NoCluster, index |-> -1, status |-> "ACTIVE"],
   [state |-> "stored", cluster_id |-> NoCluster, index |-> -1, status |-> "ERROR"],
   [state |-> "stored", cluster_id |-> OtherCluster, index |-> 1, status |-> "ACTIVE"],
   NoNode}

NodeLists == UNION {Arrangements(NodeIds, k) : k \in 0..MaxNodes}

InitMembers ==
  /\ \E tbl \in [NodeIds -> NodeStates] :
       LET members == {n \in NodeIds : tbl[n].cluster_id = ClusterId}
       IN /\ nodes = [n \in NodeIds |->
                        IF n \in members THEN [tbl[n] EXCEPT !.index = n]
                        ELSE tbl[n]]
          /\ cluster = [InitCluster([min_size |-> 0, max_size |-> Unbounded,
                                     desired_capacity |-> Cardinality(members)],
                                    "ACTIVE")
                        EXCEPT !.next_index = MaxNodes + 1]
  /\ InitRest({{}})

NextMembers ==
  \/ \E a \in Acts, kind \in MemberKinds : \E lst \in NodeLists :
       execute_load(a, kind, [NoInputs EXCEPT !.nodes = lst])
  \/ \E a \in Acts : execute_lock(a)
  \/ \E a \in Acts : execute_before(a, {NoHints})
  \/ \E a \in Acts : do_add_nodes(a)
  \/ \E a \in Acts : join_spawn(a)
  \/ \E a \in Acts : finish_add_nodes(a)
  \/ \E a \in Acts : do_del_nodes(a)
  \/ \E a \in Acts : delete_nodes_spawn(a)
  \/ \E a \in Acts : finish_del_nodes(a)
  \/ \E a \in Acts : wait_for_dependents(a)
  \/ \E a \in Acts : execute_after(a)
  \/ \E a \in Acts : execute_release(a)
  \/ \E a \in Acts : Cancel(a)
  \/ \E a \in Acts : Timeout(a)
  \/ \E i \in 1..Len(subs), ok \in BOOLEAN : SubActionEnds(i, ok)

SpecMembers == InitMembers /\ [][NextMembers]_vars

\* One CLUSTER_RESIZE on an ACTIVE cluster that holds desired_capacity nodes.
ResizeInputs ==
  {[NoInputs EXCEPT !.adj_type = t.adj_type, !.number = t.number,
                    !.min_size = t.min_size, !.max_size = t.max_size,
                    !.strict = t.strict] :
     t \in {x \in [adj_type : {"", EXACT_CAPACITY, CHANGE_IN_CAPACITY},
                   number : {None} \cup (-MaxSize)..(MaxSize + 1),
                   min_size : {None} \cup 0..MaxSize,
                   max_size : {None, Unbounded} \cup 0..MaxSize,
                   strict : BOOLEAN] :
              /\ (x.adj_type = "") = (x.number = None)
              /\ x.adj_type = EXACT_CAPACITY => x.number >= 0}}

InitResize == InitWith(SizeTriples, {"ACTIVE"}, {{}})

NextResize ==
  \/ \E a \in Acts : \E inp \in ResizeInputs :
       execute_load(a, CLUSTER_RESIZE, inp)
  \/ \E a \in Acts : execute_lock(a)
  \/ \E a \in Acts : execute_before(a, {NoHints})
  \/ \E a \in Acts : do_resize(a)
  \/ \E a \in Acts : finish_resize(a)
  \/ \E a \in Acts : create_nodes_read(a)
  \/ \E a \in Acts : create_nodes_store(a)
  \/ \E a \in Acts : delete_nodes_spawn(a)
  \/ \E a \in Acts : wait_for_dependents(a)
  \/ \E a \in Acts : execute_after(a)
  \/ \E a \in Acts : execute_release(a)
  \/ \E a \in Acts : Cancel(a)
  \/ \E a \in Acts : Timeout(a)
  \/ \E i \in 1..Len(subs), ok \in BOOLEAN : SubActionEnds(i, ok)

SpecResize == InitResize /\ [][NextResize]_vars

\* Two cluster actions one after the other on an ACTIVE cluster: a scale-out
\* or scale-in by one node, then, once its execute() has returned (its
\* sub-actions may still be running), a CLUSTER_RESIZE to an exact capacity.
SeqActs == {1, 2}

ScaleKinds == {CLUSTER_SCALE_OUT, CLUSTER_SCALE_IN}

ExactInputs ==
  {[NoInputs EXCEPT !.adj_type = EXACT_CAPACITY, !.number = n, !.strict = st] :
     n \in 0..MaxSize, st \in BOOLEAN}

InitSeq == InitWith(SizeTriples, {"ACTIVE"}, {{}})

NextSeq ==
  \/ \E kind \in ScaleKinds : execute_load(1, kind, NoInputs)
  \/ \E inp \in ExactInputs :
       /\ pc[1] = "done"
       /\ execute_load(2, CLUSTER_RESIZE, inp)
  \/ \E a \in SeqActs : execute_lock(a)
  \/ \E a \in SeqActs : execute_before(a, {NoHints})
  \/ \E a \in SeqActs : do_scale_out(a)
  \/ \E a \in SeqActs : do_scale_in(a)
  \/ \E a \in SeqActs : finish_scale(a)
  \/ \E a \in SeqActs : do_resize(a)
  \/ \E a \in SeqActs : finish_resize(a)
  \/ \E a \in SeqActs : create_nodes_read(a)
  \/ \E a \in SeqActs : create_nodes_store(a)
  \/ \E a \in SeqActs : delete_nodes_spawn(a)
  \/ \E a \in SeqActs : wait_for_dependents(a)
  \/ \E a \in SeqActs : execute_after(a)
  \/ \E a \in SeqActs : execute_release(a)
  \/ \E a \in SeqActs : Cancel(a)
  \/ \E a \in SeqActs : Timeout(a)
  \/ \E i \in 1..Len(subs), ok \in BOOLEAN : SubActionEnds(i, ok)

SpecSeq == InitSeq /\ [][NextSeq]_vars

\* Two attach or detach operations on one cluster, one after the other, from
\* any binding table the invariant allows: the second is submitted when the
\* first has returned.
PolicyKinds == {CLUSTER_ATTACH_POLICY, CLUSTER_DETACH_POLICY}

\* The binding table's invariant: at most one binding per policy type.
OnePerType(b) ==
  \A p \in b, q \in b : PolicyType(p) = PolicyType(q) => p = q

\* An ACTIVE cluster without nodes, and any binding table the invariant allows.
InitPolicy ==
  InitWith({t \in SizeTriples : t.max_size = Unbounded /\ t.desired_capacity = 0},
           {"ACTIVE"}, {b \in SUBSET PolicyIds : OnePerType(b)})

NextPolicy ==
  \/ \E a \in SeqActs, kind \in PolicyKinds : \E inp \in InputsFor(kind) :
       /\ IF a = 1 THEN TRUE ELSE pc[a - 1] = "done"
       /\ execute_load(a, kind, inp)
  \/ \E a \in SeqActs : execute_lock(a)
  \/ \E a \in SeqActs : execute_before(a, {NoHints})
  \/ \E a \in SeqActs : do_attach_policy(a)
  \/ \E a \in SeqActs : do_detach_policy(a)
  \/ \E a \in SeqActs : execute_after(a)
  \/ \E a \in SeqActs : execute_release(a)

SpecPolicy == InitPolicy /\ [][NextPolicy]_vars

\* _check_size_params() on its own: a call with every combination of
\* desired (inputs.number, None for null), min_size, max_size and strict, on
\* every cluster; the call's outcome is the result of action 1.
CheckArgs ==
  {[NoInputs EXCEPT !.number = t.desired, !.min_size = t.min_size,
                    !.max_size = t.max_size, !.strict = t.strict] :
     t \in [desired : {None} \cup 0..(MaxSize + 1),
            min_size : {None} \cup 0..MaxSize,
            max_size : {None, Unbounded} \cup 0..MaxSize,
            strict : BOOLEAN]}

InitCheck ==
  /\ \E t \in SizeTriples :
       /\ cluster = InitCluster(t, "ACTIVE")
       /\ nodes = InitNodes(t, "ACTIVE")
  /\ \E args \in CheckArgs :
       inputs = [a \in AllActs |-> IF a = 1 THEN args ELSE NoInputs]
  /\ lock = NoOwner
  /\ bindings = {}
  /\ subs = <<>>
  /\ action = [a \in AllActs |-> ""]
  /\ status = [a \in AllActs |-> "INIT"]
  /\ data = [a \in AllActs |-> EmptyData]
  /\ cancelled = [a \in AllActs |-> FALSE]
  /\ timedout = [a \in AllActs |-> FALSE]
  /\ pc = [a \in AllActs |-> "init"]
  /\ frame = [a \in AllActs |-> EmptyFrame]
  /\ result = [a \in AllActs |-> NoResult]
  /\ preempted = {}

\* result, reason = self._check_size_params(cluster, desired, min_size,
\*                                          max_size, strict)
check_size_params_call(a) ==
  /\ pc[a] = "init"
  /\ LET mem == [min_size |-> cluster.min_size, max_size |-> cluster.max_size,
                 desired_capacity |-> cluster.desired_capacity]
         reason == check_size_params(mem, inputs[a].number, inputs[a].min_size,
                                     inputs[a].max_size, inputs[a].strict)
     IN result' = [result EXCEPT ![a] =
          [res |-> IF reason = "" THEN RES_OK ELSE RES_ERROR, reason |-> reason]]
  /\ pc' = [pc EXCEPT ![a] = "done"]
  /\ UNCHANGED <<cluster, nodes, lock, bindings, subs, action, inputs, status,
                 data, cancelled, timedout, frame, preempted>>

NextCheck == check_size_params_call(1)

SpecCheck == InitCheck /\ [][NextCheck]_vars

\* One CLUSTER_UPDATE on a cluster that is ACTIVE with its nodes, or WARNING
\* with none left.
UpdateInputs == {[NoInputs EXCEPT !.new_profile_id = p] : p \in ProfileIds}

InitUpdate == InitWith(SizeTriples, {"ACTIVE", "WARNING"}, {{}})

NextUpdate ==
  \/ \E a \in Acts, inp \in UpdateInputs : execute_load(a, CLUSTER_UPDATE, inp)
  \/ \E a \in Acts : execute_lock(a)
  \/ \E a \in Acts : execute_before(a, {NoHints})
  \/ \E a \in Acts : do_update(a)
  \/ \E a \in Acts : update_spawn(a)
  \/ \E a \in Acts : wait_for_dependents(a)
  \/ \E a \in Acts : finish_update(a)
  \/ \E a \in Acts : execute_after(a)
  \/ \E a \in Acts : execute_release(a)
  \/ \E a \in Acts : Cancel(a)
  \/ \E a \in Acts : Timeout(a)
  \/ \E i \in 1..Len(subs), ok \in BOOLEAN : SubActionEnds(i, ok)

SpecUpdate == InitUpdate /\ [][NextUpdate]_vars

\* The steps of Spec that action a's own thread takes, from the lock step to
\* the return of execute().
ActionStep(a) ==
  \/ execute_lock(a)
  \/ execute_before(a, PolicyHints(a))
  \/ do_create(a)
  \/ finish_create(a)
  \/ do_delete(a)
  \/ finish_delete(a)
  \/ do_scale_out(a)
  \/ do_scale_in(a)
  \/ finish_scale(a)
  \/ do_attach_policy(a)
  \/ do_detach_policy(a)
  \/ create_nodes_read(a)
  \/ create_nodes_store(a)
  \/ delete_nodes_spawn(a)
  \/ wait_for_dependents(a)
  \/ execute_after(a)
  \/ execute_release(a)

\* Spec with its scheduling: the thread of an action keeps running, the
\* workers run every dispatched sub-action to its end, and the deadline of an
\* action that is still waiting passes. A cancel signal may never come.
Fairness ==
  /\ \A a \in Acts : WF_vars(ActionStep(a))
  /\ \A a \in Acts : WF_vars(Timeout(a))
  /\ WF_vars(\E i \in 1..Len(subs), ok \in BOOLEAN : SubActionEnds(i, ok))

\* The clusters of Init whose node store has room for every node an action
\* may create (the store itself is unbounded).
InitLive ==
  /\ Init
  /\ Cardinality(ClusterNodes) + MaxCount <= MaxNodes

SpecLive == InitLive /\ [][Next]_vars /\ Fairness

\* ------------------------------------------------------------------ claims
\* Between the successful lock step of execute() and its lock release.
InHandler(a) ==
  pc[a] \in {"before", "handler", "create_read", "create_store",
             "delete_spawn", "wait", "finish", "after", "release"}

SubsOf(a) == {i \in 1..Len(subs) : subs[i].parent = a}

LockFailed == [res |-> RES_ERROR, reason |-> "Failed in locking cluster."]

\* C1: once execute() has finished, the cluster lock is not owned by the
\* action, whichever way execute() was left (return or exception).
C1_LockReleasedOnExit == \A a \in AllActs : pc[a] = "done" => lock /= a

\* C1, its case: execute() was left by an exception raised in the handler
\* and the lock is free.
C1_Witness ==
  \E a \in AllActs : /\ pc[a] = "done"
                     /\ result[a].res = RAISED
                     /\ result[a].reason = "PolicyTypeConflict"
                     /\ lock = NoOwner

\* C2: a lock step of an action that is not CLUSTER_DELETE, taken while a
\* different action owns the slot, ends execute() with ERROR 'Failed in
\* locking cluster.', leaves the owner in place and runs neither the policy
\* check nor a handler.
C2_NonForcedAcquireFails ==
  [][\A a \in AllActs :
       (/\ pc[a] = "lock"
        /\ pc'[a] /= "lock"
        /\ action[a] /= CLUSTER_DELETE
        /\ lock \notin {NoOwner, a})
       => (/\ pc'[a] = "done"
           /\ result'[a] = LockFailed
           /\ lock' = lock
           /\ data'[a] = EmptyData
           /\ cluster' = cluster
           /\ subs' = subs)]_vars

\* C2, its case: an action that is not CLUSTER_DELETE was refused the lock
\* while another action holds it.
C2_Witness ==
  \E a \in AllActs : /\ action[a] /= CLUSTER_DELETE
                     /\ result[a] = LockFailed
                     /\ lock \notin {NoOwner, a}

\* C3 as stated: no two distinct actions, neither a CLUSTER_DELETE, are
\* inside their handlers at the same time.
C3_Original ==
  \A a, b \in AllActs :
    (a /= b /\ action[a] /= CLUSTER_DELETE /\ action[b] /= CLUSTER_DELETE)
    => ~(InHandler(a) /\ InHandler(b))

\* C3 as amended: two distinct actions, neither a CLUSTER_DELETE, are inside
\* their handlers at the same time only when a forced CLUSTER_DELETE took
\* the lock of one of them.
C3_ExclusiveUnlessPreempted ==
  \A a, b \in AllActs :
    (a /= b /\ action[a] /= CLUSTER_DELETE /\ action[b] /= CLUSTER_DELETE
     /\ InHandler(a) /\ InHandler(b))
    => (a \in preempted \/ b \in preempted)

\* C3, its case: two scale-outs are inside their handlers at the same time,
\* the lock of one of them taken by a CLUSTER_DELETE that has since released
\* it, while the other one holds the lock.
C3_Witness ==
  \E a, b \in AllActs :
    /\ a /= b
    /\ action[a] = CLUSTER_SCALE_OUT /\ InHandler(a) /\ a \in preempted
    /\ action[b] = CLUSTER_SCALE_OUT /\ InHandler(b) /\ lock = b

\* C4: the lock step of a CLUSTER_DELETE always succeeds and makes it the
\* owner; the lock step of any other action never replaces another owner.
C4_ForcedExactlyForDelete ==
  [][\A a \in AllActs :
       (pc[a] = "lock" /\ pc'[a] /= "lock")
       => IF action[a] = CLUSTER_DELETE
            THEN pc'[a] = "before" /\ lock' = a
            ELSE lock \notin {NoOwner, a} => lock' = lock]_vars

\* C4, its case: a CLUSTER_DELETE is past the lock step, having taken the
\* lock from the action that owned it.
C4_Witness ==
  \E d \in AllActs : /\ action[d] = CLUSTER_DELETE
                     /\ lock = d
                     /\ preempted /= {}

\* C5: from the BEFORE check that fails on, the action creates no
\* sub-action, never enters a handler, leaves the cluster, node and binding
\* records alone, and execute() returns ERROR with the policy reason.
C5_BeforeFailureSkipsHandler ==
  [][\A a \in AllActs :
       data'[a].reason = "denied"
       => (/\ pc'[a] \in {"release", "done"}
           /\ SubsOf(a)' = {}
           /\ cluster' = cluster
           /\ nodes' = nodes
           /\ bindings' = bindings
           /\ subs' = subs
           /\ pc'[a] = "done" =>
                result'[a] = [res |-> RES_ERROR,
                              reason |-> "Policy failure: denied"])]_vars

\* C5, its case: execute() has returned after a failed BEFORE check.
C5_Witness ==
  \E a \in AllActs : /\ data[a].status = CHECK_ERROR
                     /\ data[a].reason = "denied"
                     /\ pc[a] = "done"
                     /\ result[a].res = RES_ERROR

\* C6 as stated: after an operation that returned OK the cluster has
\* min_size <= desired_capacity and, unless max_size < 0,
\* desired_capacity <= max_size.
C6_Original ==
  \A a \in AllActs :
    (pc[a] = "done" /\ result[a].res = RES_OK)
    => (/\ cluster.min_size <= cluster.desired_capacity
        /\ (cluster.max_size < 0 \/ cluster.desired_capacity <= cluster.max_size))

\* No two node records made for the cluster carry the same index.
UniqueIndexes ==
  \A m, n \in NodeIds :
    (/\ m /= n
     /\ nodes[m].state /= "none" /\ nodes[m].cluster_id = ClusterId
     /\ nodes[n].state /= "none" /\ nodes[n].cluster_id = ClusterId)
    => nodes[m].index /= nodes[n].index

\* C7 as stated: next_index never decreases and no two nodes created for
\* the cluster receive the same index.
C7_Original ==
  [][cluster'.next_index >= cluster.next_index /\ UniqueIndexes']_vars

\* C8 as stated: when the coordinator returns, it returns OK only if every
\* sub-action of the action has SUCCEEDED, and it returns ERROR if one of
\* them has FAILED.
C8_Original ==
  [][\A a \in AllActs :
       (pc[a] = "wait" /\ pc'[a] /= "wait")
       => (/\ frame'[a].wres = RES_OK =>
                \A i \in SubsOf(a) : subs[i].status = "SUCCEEDED"
           /\ (\E i \in SubsOf(a) : subs[i].status = "FAILED") =>
                frame'[a].wres = RES_ERROR)]_vars

\* C9 as stated: a poll that finds the cancel flag set and the last
\* sub-action succeeded resolves as CANCEL.
C9_Original ==
  [][\A a \in AllActs :
       (/\ pc[a] = "wait" /\ pc'[a] /= "wait"
        /\ cancelled[a]
        /\ \A i \in SubsOf(a) : subs[i].status = "SUCCEEDED")
       => frame'[a].wres = RES_CANCEL]_vars

\* C10 as stated: a poll that finds the action cancelled and past its
\* deadline, with no sub-action failed, resolves as TIMEOUT.
C10_Original ==
  [][\A a \in AllActs :
       (/\ pc[a] = "wait" /\ pc'[a] /= "wait"
        /\ cancelled[a] /\ timedout[a]
        /\ \A i \in SubsOf(a) : subs[i].status /= "FAILED")
       => frame'[a].wres = RES_TIMEOUT]_vars

\* C11 as stated: when the coordinator saw the deadline elapsed (no failure,
\* no cancel), execute() returns the result TIMEOUT to its caller.
C11_Original ==
  [][\A a \in AllActs :
       (/\ pc[a] = "release" /\ pc'[a] = "done"
        /\ frame[a].wres = RES_TIMEOUT)
       => result'[a].res = RES_TIMEOUT]_vars

\* C12 as stated: when a CLUSTER_CREATE ends, either the resource-level
\* creation failed, the cluster is ERROR and no NODE_CREATE was dispatched, or
\* exactly desired_capacity NODE_CREATE sub-actions were dispatched and the
\* cluster is ACTIVE with the created node ids in data.nodes when the
\* coordinator returned OK, and ERROR when it returned ERROR, TIMEOUT or
\* CANCEL.
C12_Original ==
  [][\A a \in AllActs :
       (action[a] = CLUSTER_CREATE /\ pc[a] = "release" /\ pc'[a] = "done")
       => /\ frame[a].reason = "Cluster creation failed."
               => (cluster.status = "ERROR" /\ SubsOf(a) = {})
          /\ frame[a].wres /= ""
               => /\ Cardinality(SubsOf(a)) = frame[a].mem.desired_capacity
                  /\ \A i \in SubsOf(a) : subs[i].action = "NODE_CREATE"
          /\ frame[a].wres = RES_OK
               => (cluster.status = "ACTIVE" /\ data[a].nodes = frame[a].lst)
          /\ frame[a].wres \in {RES_ERROR, RES_TIMEOUT, RES_CANCEL}
               => cluster.status = "ERROR"]_vars

C14_Original ==
  [][\A a \in AllActs :
       (/\ action[a] \in {CLUSTER_SCALE_OUT, CLUSTER_SCALE_IN}
        /\ pc[a] = "finish" /\ pc'[a] /= "finish")
       => /\ frame[a].wres = RES_OK => cluster'.status = "ACTIVE"
          /\ frame[a].wres \in {RES_CANCEL, RES_ERROR}
               => cluster'.status = "ERROR"]_vars

\* C15 as stated: once a CLUSTER_SCALE_IN whose BEFORE policy left
\* deletion.candidates has dispatched its removal sub-actions, their targets
\* are exactly the nodes listed in deletion.candidates.
C15_Original ==
  \A a \in AllActs :
    (/\ action[a] = CLUSTER_SCALE_IN
     /\ data[a].deletion.present
     /\ Len(data[a].deletion.candidates) > 0
     /\ pc[a] \in {"wait", "finish"})
    => {subs[i].target : i \in SubsOf(a)} =
         {data[a].deletion.candidates[k] :
            k \in 1..Len(data[a].deletion.candidates)}

\* The ids of a request list.
Requested(lst) == {lst[k] : k \in 1..Len(lst)}

\* A requested node that ADD_NODES must refuse: missing, owned by another
\* cluster, or an orphan that is not ACTIVE.
Ineligible(n) ==
  \/ n.state /= "stored"
  \/ n.cluster_id \notin {ClusterId, NoCluster}
  \/ (n.cluster_id = NoCluster /\ n.status /= "ACTIVE")

\* C16 as stated: when at least one requested node is missing, owned by a
\* different cluster or not ACTIVE, do_add_nodes() returns ERROR and goes on
\* to dispatch no NODE_JOIN.
C16_Original ==
  [][\A a \in AllActs :
       (/\ action[a] = CLUSTER_ADD_NODES
        /\ pc[a] = "handler" /\ pc'[a] /= "handler"
        /\ \E id \in Requested(inputs[a].nodes) : Ineligible(nodes[id]))
       => (/\ pc'[a] = "release"
           /\ frame'[a].res = RES_ERROR
           /\ subs' = subs)]_vars

\* C17 as stated: no NODE_JOIN is dispatched to a node that is a member of
\* the cluster already, and a request of members only returns OK without
\* any sub-action.
C17_Original ==
  [][\A a \in AllActs :
       action[a] = CLUSTER_ADD_NODES =>
         /\ (pc[a] = "join_spawn" /\ Len(subs') > Len(subs))
            => nodes[subs'[Len(subs')].target].cluster_id /= ClusterId
         /\ (/\ pc[a] = "handler" /\ pc'[a] /= "handler"
             /\ \A id \in Requested(inputs[a].nodes) :
                  nodes[id].state = "stored" /\ nodes[id].cluster_id = ClusterId)
            => (/\ pc'[a] = "after"
                /\ frame'[a].res = RES_OK
                /\ subs' = subs)]_vars

\* C18 as stated: when every listed node exists, do_del_nodes() dispatches
\* no removal sub-action to an orphan node, and a request of orphans only
\* returns OK without any sub-action.
C18_Original ==
  [][\A a \in AllActs :
       action[a] = CLUSTER_DEL_NODES =>
         /\ (pc[a] = "delete_spawn" /\ Len(subs') > Len(subs))
            => nodes[subs'[Len(subs')].target].cluster_id /= NoCluster
         /\ (/\ pc[a] = "handler" /\ pc'[a] /= "handler"
             /\ \A id \in Requested(inputs[a].nodes) :
                  nodes[id].state = "stored" /\ nodes[id].cluster_id = NoCluster)
            => (/\ pc'[a] = "after"
                /\ frame'[a].res = RES_OK
                /\ subs' = subs)]_vars

\* The desired capacity a RESIZE with inputs inp asks for on cluster c, and
\* whether it lies outside the target bounds: those of the inputs, or the
\* cluster's own where the inputs name none.
RequestedCapacity(c, inp) ==
  CASE inp.adj_type = EXACT_CAPACITY -> inp.number
    [] inp.adj_type = CHANGE_IN_CAPACITY -> c.desired_capacity + inp.number
    [] OTHER -> c.desired_capacity

OutsideBounds(c, inp) ==
  LET lo == IF inp.min_size /= None THEN inp.min_size ELSE c.min_size
      hi == IF inp.max_size /= None THEN inp.max_size ELSE c.max_size
      d == RequestedCapacity(c, inp)
  IN d < lo \/ (hi >= 0 /\ d > hi)

\* C20: a strict CLUSTER_RESIZE whose desired capacity lies outside the
\* target bounds leaves its handler with ERROR, the cluster record, the
\* nodes and the sub-actions as they were.
C20_StrictRejection ==
  [][\A a \in AllActs :
       (/\ action[a] = CLUSTER_RESIZE
        /\ pc[a] = "handler" /\ pc'[a] /= "handler"
        /\ inputs[a].strict
        /\ OutsideBounds(cluster, inputs[a]))
       => (/\ pc'[a] = "release"
           /\ frame'[a].res = RES_ERROR
           /\ cluster' = cluster
           /\ nodes' = nodes
           /\ subs' = subs)]_vars

\* C20, its case: a strict CLUSTER_RESIZE below the cluster's own min_size
\* has returned ERROR; the cluster is as it was and there is no sub-action.
C20_Witness ==
  \E a \in AllActs :
    /\ action[a] = CLUSTER_RESIZE /\ pc[a] = "done"
    /\ inputs[a].strict /\ inputs[a].min_size = None
    /\ OutsideBounds(cluster, inputs[a])
    /\ RequestedCapacity(cluster, inputs[a]) < cluster.min_size
    /\ result[a] = [res |-> RES_ERROR, reason |->
                      "The target capacity is less than the cluster's min_size."]
    /\ cluster.status = "ACTIVE"
    /\ subs = <<>>

\* C19 as stated: a CLUSTER_RESIZE with EXACT_CAPACITY, number equal to the
\* cluster's desired_capacity and no min_size or max_size goes into no
\* fan-out: it creates no sub-action.
C19_Original ==
  [][\A a \in AllActs :
       (/\ action[a] = CLUSTER_RESIZE
        /\ pc[a] = "handler" /\ pc'[a] /= "handler"
        /\ inputs[a].adj_type = EXACT_CAPACITY
        /\ inputs[a].number = cluster.desired_capacity
        /\ inputs[a].min_size = None /\ inputs[a].max_size = None)
       => pc'[a] \in {"finish", "release"}]_vars

\* C21: through any sequence of ATTACH_POLICY and DETACH_POLICY operations
\* the cluster has at most one binding per policy type. An attach of a policy
\* whose type is that of a binding with another id ends with
\* PolicyTypeConflict, without a call of the attach hook and with the binding
\* table as it was; an attach of a bound policy id returns OK and leaves the
\* binding table as it was.
C21_OneBindingPerType ==
  /\ [](OnePerType(bindings))
  /\ [][\A a \in AllActs :
         (/\ action[a] = CLUSTER_ATTACH_POLICY
          /\ pc[a] = "handler" /\ pc'[a] /= "handler")
         => LET p == inputs[a].policy_id
            IN /\ (\E q \in bindings :
                      q /= p /\ PolicyType(q) = PolicyType(p))
                    => (/\ frame'[a].res = RAISED
                        /\ frame'[a].reason = "PolicyTypeConflict"
                        /\ ~frame'[a].hook
                        /\ bindings' = bindings)
               /\ p \in bindings
                    => (/\ frame'[a].res = RES_OK
                        /\ ~frame'[a].hook
                        /\ bindings' = bindings)]_vars

\* A policy was attached by one operation and the next one, an attach of the
\* other policy of that type, has just met the conflict.
C21_Witness ==
  \E a \in AllActs \ {1} :
    /\ action[a - 1] = CLUSTER_ATTACH_POLICY
    /\ result[a - 1].reason = "Policy attached."
    /\ action[a] = CLUSTER_ATTACH_POLICY
    /\ pc[a] = "release"
    /\ frame[a].reason = "PolicyTypeConflict"
    /\ inputs[a].policy_id /= inputs[a - 1].policy_id
    /\ inputs[a - 1].policy_id \in bindings

\* C22: within one cluster action the BEFORE policy check has completed (and
\* passed) when a sub-action is created; the AFTER check is made only when the
\* handler returned OK, and then every sub-action the action dispatched is in
\* a terminal state; when the AFTER check fails execute() returns ERROR with
\* the policy's reason, whatever the sub-actions did.
C22_PolicyCheckOrder ==
  /\ [](\A a \in AllActs :
          /\ SubsOf(a) /= {}
               => pc[a] \notin {"init", "lock", "before"}
          /\ pc[a] = "after" => frame[a].res = RES_OK
          /\ (pc[a] = "done" /\ data[a].reason = "vetoed")
               => result[a] = [res |-> RES_ERROR, reason |-> "vetoed"])
  /\ [][/\ Len(subs') > Len(subs)
           => data[subs'[Len(subs')].parent].status = CHECK_OK
        /\ \A a \in AllActs :
             (pc[a] = "after" /\ pc'[a] /= "after")
             => /\ \A i \in SubsOf(a) :
                     subs[i].status \in {"SUCCEEDED", "FAILED"}
                /\ data'[a].status /= CHECK_OK
                     => (/\ pc'[a] = "release"
                         /\ frame'[a].res = RES_ERROR
                         /\ frame'[a].reason = data'[a].reason)]_vars

\* The sub-actions of an action all succeeded, its handler returned OK, and
\* the AFTER check has just failed.
C22_Witness ==
  \E a \in AllActs :
    /\ pc[a] = "release"
    /\ SubsOf(a) /= {}
    /\ \A i \in SubsOf(a) : subs[i].status = "SUCCEEDED"
    /\ data[a].status = CHECK_ERROR /\ data[a].reason = "vetoed"
    /\ frame[a].res = RES_ERROR /\ frame[a].reason = "vetoed"

\* C23 as stated: when the validation of ADD_NODES recorded no failure, the
\* NODE_JOIN sub-actions are one per node left in the request, each with that
\* node as its target (distinct targets, together the set of survivors), and
\* on OK data.nodes is the list of survivors.
C23_Original ==
  \A a \in AllActs :
    (action[a] = CLUSTER_ADD_NODES /\ pc[a] \in {"wait", "finish", "after"})
    => /\ \A i \in SubsOf(a) : subs[i].action = "NODE_JOIN"
       /\ Cardinality(SubsOf(a)) = Len(inputs[a].nodes)
       /\ {subs[i].target : i \in SubsOf(a)} = Requested(inputs[a].nodes)
       /\ pc[a] = "after" => data[a].nodes = inputs[a].nodes

\* C24 as stated: a CLUSTER_RESIZE that gives no adj_type and a min_size above
\* the cluster's desired_capacity returns ERROR, with strict set or not, and
\* leaves the cluster's size properties as they were.
C24_Original ==
  [][\A a \in AllActs :
       (/\ action[a] = CLUSTER_RESIZE
        /\ pc[a] = "handler" /\ pc'[a] /= "handler"
        /\ inputs[a].adj_type = ""
        /\ inputs[a].min_size /= None
        /\ inputs[a].min_size > cluster.desired_capacity)
       => (/\ pc'[a] = "release"
           /\ frame'[a].res = RES_ERROR
           /\ cluster'.min_size = cluster.min_size
           /\ cluster'.max_size = cluster.max_size
           /\ cluster'.desired_capacity = cluster.desired_capacity)]_vars

\* The reasons _check_size_params() gives for an ERROR on account of an
\* upper bound.
UpperBoundReasons ==
  {"The target capacity is greater than the specified max_size.",
   "The target capacity is greater than the cluster's max_size.",
   "The specified min_size is greater than the specified max_size.",
   "The specified min_size is greater than the current max_size of the cluster.",
   "The specified max_size is less than the current min_size of the cluster.",
   "The specified max_size is less than the current desired_capacity of the cluster."}

\* C25 as stated: when the effective max_size (the one given, or the
\* cluster's when none is given) is -1, _check_size_params() returns no ERROR
\* on account of an upper bound, whatever desired (a number or null),
\* min_size, strict and the cluster are.
C25_Original ==
  (/\ pc[1] = "done"
   /\ action[1] = ""
   /\ (IF inputs[1].max_size /= None THEN inputs[1].max_size
        ELSE cluster.max_size) = Unbounded)
  => result[1].reason \notin UpperBoundReasons

\* CLUSTER_UPDATE: one NODE_UPDATE per existing node once the fan-out is
\* done, and the profile written only by an update whose coordinator returned
\* OK (or that had no node to wait for), together with the status ACTIVE.
UpdateFanOut ==
  \A a \in AllActs :
    (action[a] = CLUSTER_UPDATE /\ pc[a] \in {"wait", "finish"})
    => /\ \A i \in SubsOf(a) : subs[i].action = "NODE_UPDATE"
       /\ Cardinality(SubsOf(a)) = Cardinality(ClusterNodes)
       /\ {subs[i].target : i \in SubsOf(a)} = ClusterNodes

UpdateWritesOnOk ==
  /\ \A a \in AllActs :
       (/\ action[a] = CLUSTER_UPDATE
        /\ pc[a] = "finish" /\ pc'[a] /= "finish")
       => IF frame[a].wres = RES_OK
            THEN /\ cluster'.profile_id = inputs[a].new_profile_id
                 /\ cluster'.status = "ACTIVE"
                 /\ frame'[a].res = RES_OK
            ELSE /\ cluster' = cluster
                 /\ frame'[a].res /= RES_OK
  /\ cluster'.profile_id /= cluster.profile_id
       => \E a \in AllActs :
            /\ action[a] = CLUSTER_UPDATE
            /\ \/ pc[a] = "finish" /\ frame[a].wres = RES_OK
               \/ pc[a] = "handler" /\ ClusterNodes = {}

\* C26 as stated: one NODE_UPDATE per existing node; the profile is written
\* and the status set to ACTIVE only when the coordinator returned OK, the
\* cluster's profile_id being unchanged otherwise; and an update of a cluster
\* without nodes creates no sub-action and leaves the cluster record as it is.
C26_Original ==
  /\ [](UpdateFanOut)
  /\ [][/\ UpdateWritesOnOk
        /\ \A a \in AllActs :
             (/\ action[a] = CLUSTER_UPDATE
              /\ pc[a] = "handler" /\ pc'[a] /= "handler"
              /\ ClusterNodes = {})
             => (subs' = subs /\ cluster' = cluster)]_vars

\* C26, amended: an update of a cluster without nodes creates no sub-action,
\* returns OK, and does write profile_id = new_profile_id and the status
\* ACTIVE to the cluster record.
C26_UpdateWritesProfile ==
  /\ [](UpdateFanOut)
  /\ [][/\ UpdateWritesOnOk
        /\ \A a \in AllActs :
             (/\ action[a] = CLUSTER_UPDATE
              /\ pc[a] = "handler" /\ pc'[a] /= "handler"
              /\ ClusterNodes = {})
             => (/\ subs' = subs
                 /\ frame'[a].res = RES_OK
                 /\ cluster'.profile_id = inputs[a].new_profile_id
                 /\ cluster'.status = "ACTIVE")]_vars

\* An update of a cluster without nodes has left its handler with OK, without
\* a sub-action, and the cluster record holds the new profile.
C26_Witness ==
  \E a \in AllActs :
    /\ action[a] = CLUSTER_UPDATE
    /\ pc[a] = "after"
    /\ ClusterNodes = {} /\ SubsOf(a) = {}
    /\ inputs[a].new_profile_id = "p2"
    /\ cluster.profile_id = "p2" /\ cluster.status = "ACTIVE"

\* C27: the release at the end of execute() frees the lock only when the
\* action is its owner. After a CLUSTER_DELETE took the lock from a running
\* action, that action's release leaves the lock with the CLUSTER_DELETE, which
\* stays the owner until its own release (or the forced acquire of another
\* CLUSTER_DELETE): no non-forced action acquires the lock in between.
C27_ReleaseOwnerChecked ==
  [][/\ \A a \in AllActs :
          (pc[a] = "release" /\ pc'[a] = "done")
          => lock' = (IF lock = a THEN NoOwner ELSE lock)
     /\ \A d \in AllActs :
          (action[d] = CLUSTER_DELETE /\ lock = d /\ lock' /= d)
          => \/ pc[d] = "release" /\ pc'[d] = "done" /\ lock' = NoOwner
             \/ \E e \in AllActs \ {d} :
                  /\ action[e] = CLUSTER_DELETE
                  /\ pc[e] = "lock" /\ pc'[e] = "before"
                  /\ lock' = e]_vars

\* A scale-out lost the lock to a CLUSTER_DELETE and has returned; the
\* CLUSTER_DELETE is still the owner, inside its handler, and a third action
\* was refused the lock.
C27_Witness ==
  \E a, d, c \in AllActs :
    /\ a /= d /\ a /= c /\ c /= d
    /\ action[a] = CLUSTER_SCALE_OUT /\ a \in preempted /\ pc[a] = "done"
    /\ action[d] = CLUSTER_DELETE /\ lock = d /\ InHandler(d)
    /\ action[c] = CLUSTER_SCALE_OUT /\ result[c] = LockFailed

\* C28: when do_resize() leaves its handler with the stored desired_capacity
\* below the number of nodes of the cluster (and no candidates from a policy)
\* it removes exactly that many nodes less, all of them distinct members of
\* the cluster; with desired_capacity above the number of nodes it creates
\* exactly the difference; with equality it goes into no fan-out. Once the
\* fan-out is done there is one sub-action per victim or per node to create.
C28_ResizeFanOut ==
  /\ [][\A a \in AllActs :
         (/\ action[a] = CLUSTER_RESIZE
          /\ pc[a] = "handler"
          /\ pc'[a] \in {"finish", "delete_spawn", "create_read"}
          /\ ~data[a].deletion.present)
         => LET desired == cluster'.desired_capacity
                count == Cardinality(ClusterNodes)
                victims == frame'[a].lst
            IN IF desired < count
                 THEN /\ pc'[a] = "delete_spawn"
                      /\ Len(victims) = count - desired
                      /\ Cardinality(Requested(victims)) = Len(victims)
                      /\ Requested(victims) \subseteq ClusterNodes
               ELSE IF desired > count
                 THEN pc'[a] = "create_read" /\ frame'[a].count = desired - count
               ELSE pc'[a] = "finish" /\ SubsOf(a) = {}]_vars
  /\ [](\A a \in AllActs :
          (action[a] = CLUSTER_RESIZE /\ pc[a] = "wait")
          => /\ {subs[i].target : i \in SubsOf(a)} = Requested(frame[a].lst)
             /\ \/ /\ \A i \in SubsOf(a) : subs[i].action = "NODE_DELETE"
                   /\ Cardinality(SubsOf(a)) = data[a].deletion.count
                \/ /\ \A i \in SubsOf(a) : subs[i].action = "NODE_CREATE"
                   /\ Cardinality(SubsOf(a)) = data[a].creation.count)

\* A resize of a cluster of two nodes to no node has dispatched its two
\* NODE_DELETE actions, one per node.
C28_Witness ==
  \E a \in AllActs :
    /\ action[a] = CLUSTER_RESIZE
    /\ pc[a] = "wait"
    /\ cluster.desired_capacity = 0
    /\ Cardinality(SubsOf(a)) = 2
    /\ \A i \in SubsOf(a) : subs[i].action = "NODE_DELETE"
    /\ {subs[i].target : i \in SubsOf(a)} = ClusterNodes

\* C29: every execute() call that has started comes to its end, by a return
\* or an exception, and the action does not own the lock then: the wait for
\* the sub-actions ends because they all reach a terminal state, or the
\* action is cancelled, or its deadline passes.
C29_ExecuteTerminates ==
  \A a \in AllActs :
    (pc[a] \notin {"init", "done"}) ~> (pc[a] = "done" /\ lock /= a)

\* An execute() call has ended and the lock is free although a sub-action it
\* dispatched is still running: its wait was ended by the deadline.
C29_Witness ==
  \E a \in AllActs :
    /\ pc[a] = "done"
    /\ timedout[a] /\ ~cancelled[a]
    /\ lock = NoOwner
    /\ \E i \in SubsOf(a) : subs[i].status = "READY"

\* C30 as stated: every sub-action a CLUSTER_DEL_NODES dispatches is a
\* NODE_LEAVE whose target is a member of the cluster, and no node of another
\* cluster loses its cluster.
C30_Original ==
  [][/\ (/\ Len(subs') > Len(subs)
         /\ action[subs'[Len(subs')].parent] = CLUSTER_DEL_NODES)
        => (/\ subs'[Len(subs')].action = "NODE_LEAVE"
            /\ nodes[subs'[Len(subs')].target].state = "stored"
            /\ nodes[subs'[Len(subs')].target].cluster_id = ClusterId)
     /\ \A n \in NodeIds :
          nodes[n].cluster_id = OtherCluster
          => nodes'[n].cluster_id = OtherCluster]_vars

\* C31 as stated: whatever its count, a CLUSTER_SCALE_IN never stores a
\* negative desired_capacity and never draws more victims than the cluster
\* has nodes: its handler is not left by an exception, and the victims it goes
\* on to remove are as many as desired_capacity was reduced by.
C31_Original ==
  [][\A a \in AllActs :
       (/\ action[a] = CLUSTER_SCALE_IN
        /\ pc[a] = "handler" /\ pc'[a] /= "handler")
       => (/\ cluster'.desired_capacity >= 0
           /\ frame'[a].res /= RAISED
           /\ pc'[a] = "delete_spawn"
                => (/\ Len(frame'[a].pend) <= Cardinality(ClusterNodes)
                    /\ Len(frame'[a].pend)
                         = cluster.desired_capacity - cluster'.desired_capacity))]_vars

====
